---- MODULE Spec2Model ----
(***************************************************************************)
(* Client-side synchronisation layer of the agent control panel            *)
(* (src/src/App.jsx): the notification queue of NotificationProvider, the  *)
(* useCachedRequest unit, and the four tabs built on them.                 *)
(*                                                                         *)
(* Exactly one tab component is mounted at a time (TabContent), so the     *)
(* model keeps the state of the mounted tab's unit and of that tab's own   *)
(* useState cells; switching tabs unmounts the component, which discards   *)
(* that state, while network calls it started stay in flight ("stale").    *)
(* A React effect runs in the same step as the render that schedules it.   *)
(***************************************************************************)
EXTENDS Integers, Sequences, FiniteSets, TLC

\* ------------------------------------------------------------------ bounds
\* longest text the operator types (task description, plan title, filter)
MaxStrLen == 1
\* network calls in flight at once
MaxCalls == 2
\* notifications whose timer is still pending, in a tab's specification
MaxTimers == 1
\* notifications whose timer is still pending, in the queue's specification
MaxQueue == 3
\* distinct values the id generator can return
NumIds == 2
\* distinct truthy response bodies of a GET endpoint
NumPayloads == 2
\* entries of a collection handed to a list filter on its own
MaxItems == 3

\* ------------------------------------------------------------- value space
\* JavaScript null / undefined
Null == 0
\* a response body that is not null but falsy in JavaScript ("" , 0, false)
Falsy == 0 - 1
\* the value Date.now() leaves in cacheRef.current.timestamp (never read)
Stamp == 1

Truthy(v) == v > 0

Ids == 1..NumIds

Payloads == 1..NumPayloads

ResponseBodies == Payloads \cup {Falsy}

Chars == {" ", "a"}

RECURSIVE SeqsUpTo(_, _)
SeqsUpTo(S, n) ==
  IF n = 0 THEN {<<>>}
  ELSE LET shorter == SeqsUpTo(S, n - 1)
       IN shorter \cup {Append(s, c) : s \in shorter, c \in S}

Texts == SeqsUpTo(Chars, MaxStrLen)

\* a text with white space at both ends
PaddedText == <<" ", "a", " ">>

\* what the operator types as a task description
Descriptions == Texts \cup {PaddedText}

\* String.prototype.trim: strips white space at both ends
RECURSIVE TrimStart(_)
TrimStart(s) ==
  IF s = <<>> THEN <<>>
  ELSE IF Head(s) = " " THEN TrimStart(Tail(s)) ELSE s

RECURSIVE TrimEnd(_)
TrimEnd(s) ==
  IF s = <<>> THEN <<>>
  ELSE IF s[Len(s)] = " " THEN TrimEnd(SubSeq(s, 1, Len(s) - 1)) ELSE s

Trim(s) == TrimEnd(TrimStart(s))

\* String.prototype.toLowerCase on the letters used in file names
LowerChar(c) == IF c = "A" THEN "a" ELSE IF c = "B" THEN "b" ELSE c

ToLowerCase(s) == [i \in 1..Len(s) |-> LowerChar(s[i])]

\* String.prototype.includes
Includes(s, sub) ==
  \E k \in 0..(Len(s) - Len(sub)) : SubSeq(s, k + 1, k + Len(sub)) = sub

RemoveAt(s, i) == SubSeq(s, 1, i - 1) \o SubSeq(s, i + 1, Len(s))

TABS == {"files", "summary", "task", "plan"}

Priorities == {"low", "medium", "high"}

Statuses == {"planned", "in_progress", "done"}

StatusFilters == {"all"} \cup Statuses

\* what the operator picks in the two selects of the plan form
PrioritiesTried == {"high"}

StatusesTried == {"in_progress"}

\* ------------------------------------------------- what the agent returns
\* the k-th file of a listing: "A", "Ab", "Abb", ...
FileName(k) == [j \in 1..k |-> IF j = 1 THEN "A" ELSE "b"]

\* data.files of the body p of GET /files
FilesOf(p) == IF Truthy(p) THEN [k \in 1..p |-> FileName(k)] ELSE <<>>

\* the k-th item of a plan
PlanItem(k) ==
  [id |-> k, title |-> <<"a">>,
   priority |-> IF k % 2 = 1 THEN "low" ELSE "high",
   status |-> IF k % 2 = 1 THEN "planned" ELSE "done"]

\* data.plan of the body p of GET /plan
PlanOf(p) == IF Truthy(p) THEN [k \in 1..p |-> PlanItem(k)] ELSE <<>>

\* a response body seen through one field (data?.files, data?.plan): the
\* field is there with its entries, or it is absent
Body(present, items) == [present |-> present, items |-> items]

FilesBody(d) == Body(Truthy(d), FilesOf(d))

PlanBody(d) == Body(Truthy(d), PlanOf(d))

\* file names and search texts handed to filteredFiles on its own
NamesTried == {<<"A">>, <<"a", "b">>, <<"B">>}

QueriesTried == {<<>>, <<"a">>, <<"b">>, <<"A", "B">>}

Listings ==
  {Body(FALSE, <<>>)} \cup {Body(TRUE, names) : names \in SeqsUpTo(NamesTried, MaxItems)}

\* plans handed to filteredItems on its own: item k has id k
ItemOf(k, st) == [id |-> k, title |-> <<"a">>, priority |-> "low", status |-> st]

Plans ==
  {Body(FALSE, <<>>)} \cup
  {Body(TRUE, [k \in 1..Len(sts) |-> ItemOf(k, sts[k])]) :
     sts \in SeqsUpTo(Statuses, MaxItems)}

\* a failed call: the server's message field (Null when absent or empty)
\* and the transport's err.message
Failures == {[serverMessage |-> Null, message |-> 1],
             [serverMessage |-> 2, message |-> 1]}

\* err.response?.data?.message || err.message
Describe(f) == IF Truthy(f.serverMessage) THEN f.serverMessage ELSE f.message

\* response.data.content of GET /files?name=...: absent, "" or a text
Absent == 0 - 1

Contents == {Absent, 0, 1}

\* response.data.content ?? ""
Coalesce(c) == IF c = Absent THEN 0 ELSE c

\* ------------------------------------------------------------------- state
VARIABLES
  activeTab,
  messages, timers,
  data, loading, error, cache,
  calls, unhandled, lastOp,
  filter, selectedFile, content, isContentLoading,
  input, submitting,
  statusFilter, draft, isSaving,
  memo

vars ==
  <<activeTab, messages, timers, data, loading, error, cache, calls,
    unhandled, lastOp, filter, selectedFile, content, isContentLoading,
    input, submitting, statusFilter, draft, isSaving, memo>>

notifVars == <<messages, timers>>

unitVars == <<data, loading, error, cache>>

filesVars == <<filter, selectedFile, content, isContentLoading>>

taskVars == <<input, submitting>>

planVars == <<statusFilter, draft, isSaving>>

NoFile == <<>>

EmptyCache == [data |-> Null, timestamp |-> Null]

\* a useMemo list computation taken on its own: which hook, the response
\* body and filter it depends on, and the list it last returned
Memo(hook, body, arg) ==
  [hook |-> hook, body |-> body, arg |-> arg, out |-> <<>>, done |-> FALSE]

NoMemo == Memo("none", Body(FALSE, <<>>), <<>>)

EmptyDraft == [id |-> Null, title |-> <<>>, priority |-> "medium", status |-> "planned"]

\* a network call in flight: who issued it, with what, and whether the
\* issuing component is still mounted
Call(kind, tab, stale, caught, arg, body) ==
  [kind |-> kind, tab |-> tab, stale |-> stale, caught |-> caught,
   arg |-> arg, body |-> body]

\* call sites none of which attaches a catch
CatchesNowhere(tab) == FALSE

\* request() call sites: loadTask and loadPlan attach .catch(() => {}),
\* the Files and Summary tabs call request() bare
CallSiteCatches(tab) == tab \in {"task", "plan"}

ReqCall(tab, stale) == Call("request", tab, stale, CallSiteCatches(tab), <<>>, EmptyDraft)

\* unmounting: the continuation of a call of an unmounted component no longer
\* reads what the call sent
MarkStale(cs) ==
  [i \in 1..Len(cs) |->
     [cs[i] EXCEPT !.stale = TRUE, !.arg = <<>>, !.body = EmptyDraft]]

CanCall == Len(calls) < MaxCalls

CanPush == Len(timers) < MaxTimers

\* --------------------------------------------------- NotificationProvider
\* a message is kept by its type; title and description are display text
Msg(type) == [type |-> type]

\* const payload = { id, ...message }
Payload(id, message) == [id |-> id, type |-> message.type]

\* a removal that drops the oldest message whatever its id
RemoveOldest(msgs, id) == IF msgs = <<>> THEN msgs ELSE Tail(msgs)

\* a removal that drops nothing
RemoveNothing(msgs, id) == msgs

\* msgs.filter((msg) => msg.id !== id)
RemoveMessageFrom(msgs, id) == SelectSeq(msgs, LAMBDA m : m.id # id)

\* pushMessage: the id comes from crypto.randomUUID() or Math.random(); the
\* code does not compare it with the ids in use. Every caller leaves
\* message.ttl unset, so all timers run 4000 ms and fire in the order set.
PushMessage(message) ==
  \E id \in Ids :
    /\ messages' = Append(messages, Payload(id, message))
    /\ timers' = Append(timers, id)

\* a push by a tab or by the unit
Push(message) == CanPush /\ PushMessage(message)

NoPush == UNCHANGED notifVars

\* pushMessage called by any component
PushAny(type) ==
  /\ Len(timers) < MaxQueue
  /\ PushMessage(Msg(type))
  /\ lastOp' = [op |-> "pushMessage", live |-> TRUE]
  /\ UNCHANGED <<activeTab, memo, unitVars, calls, unhandled, filesVars, taskVars,
                 planVars>>

\* removeMessage(id) called directly
RemoveMessage(id) ==
  /\ messages' = RemoveMessageFrom(messages, id)
  /\ lastOp' = [op |-> "removeMessage", live |-> TRUE]
  /\ UNCHANGED <<activeTab, memo, timers, unitVars, calls, unhandled, filesVars,
                 taskVars, planVars>>

\* the setTimeout callback of the oldest pending push: removeMessage(id)
TimerFire ==
  /\ timers # <<>>
  /\ messages' = RemoveMessageFrom(messages, Head(timers))
  /\ timers' = Tail(timers)
  /\ lastOp' = [op |-> "timer", live |-> TRUE]
  /\ UNCHANGED <<activeTab, memo, unitVars, calls, unhandled, filesVars, taskVars,
                 planVars>>

\* -------------------------------------------------------- useCachedRequest
\* request(), up to the await: setLoading(true); setError(null); axios(...)
StartRequest(cs) ==
  /\ loading' = TRUE
  /\ error' = Null
  /\ calls' = Append(cs, ReqCall(activeTab, FALSE))

\* hydrateFromCache: if (cacheRef.current.data) setData(cacheRef.current.data)
Hydrated(d, c) == IF Truthy(c.data) THEN c.data ELSE d

\* the auto-load effect of each tab, deps [data, ...]: it runs after mount
\* and after a render in which data changed. A parsed response body is a
\* fresh object; a falsy body is a primitive compared by value.
EffectRuns(old, new) == Truthy(new) \/ new # old

\* if (!data) request(); else hydrateFromCache();
EffectRequests(d) == ~Truthy(d)

\* a try block that forgets cacheRef
TryUnitSkipsCache(p, rest) ==
  /\ UNCHANGED cache
  /\ IF EffectRuns(data, p) /\ EffectRequests(p)
     THEN /\ data' = p
          /\ StartRequest(rest)
     ELSE /\ data' = IF EffectRuns(data, p) THEN Hydrated(p, cache) ELSE p
          /\ loading' = FALSE
          /\ calls' = rest
          /\ UNCHANGED error

\* a try block that keeps the first response it stored
TryUnitFirstWins(p, rest) ==
  /\ cache' = IF Truthy(data) THEN cache ELSE [data |-> p, timestamp |-> Stamp]
  /\ data' = IF Truthy(data) THEN data ELSE p
  /\ IF ~Truthy(data) /\ EffectRuns(data, p) /\ EffectRequests(p)
     THEN StartRequest(rest)
     ELSE /\ loading' = FALSE
          /\ calls' = rest
          /\ UNCHANGED error

\* try block after the await, in a mounted component
TryUnit(p, rest) ==
  /\ cache' = [data |-> p, timestamp |-> Stamp]
  /\ IF EffectRuns(data, p) /\ EffectRequests(p)
     THEN /\ data' = p
          /\ StartRequest(rest)
     ELSE /\ data' = IF EffectRuns(data, p)
                     THEN Hydrated(p, [data |-> p, timestamp |-> Stamp])
                     ELSE p
          /\ loading' = FALSE
          /\ calls' = rest
          /\ UNCHANGED error

\* a catch block without setLoading(false)
CatchUnitKeepsLoading(description) ==
  /\ error' = description
  /\ UNCHANGED <<loading, data, cache>>

\* a catch block that also drops the stored response
CatchUnitClearsData(description) ==
  /\ error' = description
  /\ loading' = FALSE
  /\ data' = Null
  /\ cache' = EmptyCache

\* catch block, in a mounted component: setError(description); setLoading(false)
CatchUnit(description) ==
  /\ error' = description
  /\ loading' = FALSE
  /\ UNCHANGED <<data, cache>>

\* the response of a request() arrives with status 2xx and body p
RequestResolve(i, p) ==
  /\ i \in 1..Len(calls)
  /\ calls[i].kind = "request"
  /\ IF calls[i].stale
     THEN calls' = RemoveAt(calls, i) /\ UNCHANGED unitVars
     ELSE TryUnit(p, RemoveAt(calls, i))
  /\ lastOp' = [op |-> "requestOk", live |-> ~calls[i].stale]
  /\ UNCHANGED <<activeTab, memo, notifVars, unhandled, filesVars, taskVars, planVars>>

\* a request() fails: the catch block reports, records and rethrows; the
\* rejection is unhandled unless the call site attached a catch
RequestReject(i, f) ==
  /\ i \in 1..Len(calls)
  /\ calls[i].kind = "request"
  /\ Push(Msg("error"))
  /\ IF calls[i].stale THEN UNCHANGED unitVars ELSE CatchUnit(Describe(f))
  /\ calls' = RemoveAt(calls, i)
  /\ unhandled' = (unhandled \/ ~calls[i].caught)
  /\ lastOp' = [op |-> "requestFail", live |-> ~calls[i].stale]
  /\ UNCHANGED <<activeTab, memo, filesVars, taskVars, planVars>>

\* a hydration that also clears the recorded error
HydrateClearsError ==
  /\ data' = Hydrated(data, cache)
  /\ error' = Null
  /\ lastOp' = [op |-> "hydrate", live |-> TRUE]
  /\ UNCHANGED <<activeTab, memo, notifVars, loading, cache, calls, unhandled,
                 filesVars, taskVars, planVars>>

\* hydrateFromCache() called by a consumer of the unit
Hydrate ==
  /\ data' = Hydrated(data, cache)
  /\ lastOp' = [op |-> "hydrate", live |-> TRUE]
  /\ UNCHANGED <<activeTab, memo, notifVars, loading, error, cache, calls, unhandled,
                 filesVars, taskVars, planVars>>

\* ---------------------------------------------------------------------- App
\* TabNavigation onChange: the old tab unmounts, the new one mounts with
\* fresh state and its auto-load effect calls request()
SwitchTab(t) ==
  /\ t # activeTab
  /\ CanCall
  /\ activeTab' = t
  /\ data' = Null
  /\ cache' = EmptyCache
  /\ loading' = TRUE
  /\ error' = Null
  /\ calls' = Append(MarkStale(calls), ReqCall(t, FALSE))
  /\ filter' = <<>>
  /\ selectedFile' = NoFile
  /\ content' = 0
  /\ isContentLoading' = FALSE
  /\ input' = <<>>
  /\ submitting' = FALSE
  /\ statusFilter' = "all"
  /\ draft' = EmptyDraft
  /\ isSaving' = FALSE
  /\ lastOp' = [op |-> "mount", live |-> TRUE]
  /\ UNCHANGED <<notifVars, unhandled, memo>>

\* ----------------------------------------------------------------- FilesTab
\* filteredFiles (entries are represented by their names); first a filter
\* that compares the names as they are
FilterFilesCaseSensitive(body, f) ==
  IF ~body.present THEN <<>>
  ELSE SelectSeq(body.items, LAMBDA n : Includes(n, f))

\* if (!data?.files) return [];
\* data.files.filter((file) => file.name.toLowerCase().includes(filter.toLowerCase()))
FilterFiles(body, f) ==
  IF ~body.present THEN <<>>
  ELSE SelectSeq(body.items, LAMBDA n : Includes(ToLowerCase(n), ToLowerCase(f)))

FilteredFiles(d, f) == FilterFiles(FilesBody(d), f)

\* what the content pane renders of the stored content:
\* isContentLoading ? <indicator> : content || <placeholder>
ContentPane == IF isContentLoading THEN 0 ELSE content

\* the search box: setFilter(e.target.value)
SetFilter(f) ==
  /\ activeTab = "files"
  /\ f # filter
  /\ filter' = f
  /\ lastOp' = [op |-> "setFilter", live |-> TRUE]
  /\ UNCHANGED <<activeTab, memo, notifVars, unitVars, calls, unhandled, selectedFile,
                 content, isContentLoading, taskVars, planVars>>

\* a click on a rendered row: fetchFileContent(file.name) up to the await
SelectFile(k) ==
  /\ activeTab = "files"
  /\ ~loading
  /\ k \in 1..Len(FilteredFiles(data, filter))
  /\ CanCall
  /\ isContentLoading' = TRUE
  /\ calls' = Append(calls, Call("content", "files", FALSE, TRUE,
                                 FilteredFiles(data, filter)[k], EmptyDraft))
  /\ lastOp' = [op |-> "selectFile", live |-> TRUE]
  /\ UNCHANGED <<activeTab, memo, notifVars, unitVars, unhandled, filter, selectedFile,
                 content, taskVars, planVars>>

\* a success path that stores the content but not the file name
ContentResolveKeepsSelection(i, c) ==
  /\ i \in 1..Len(calls)
  /\ calls[i].kind = "content"
  /\ IF calls[i].stale
     THEN UNCHANGED <<content, isContentLoading>>
     ELSE /\ content' = Coalesce(c)
          /\ isContentLoading' = FALSE
  /\ calls' = RemoveAt(calls, i)
  /\ lastOp' = [op |-> "contentOk", live |-> ~calls[i].stale]
  /\ UNCHANGED <<activeTab, memo, notifVars, unitVars, unhandled, filter,
                 selectedFile, taskVars, planVars>>

\* fetchFileContent after the await: try, then finally
ContentResolve(i, c) ==
  /\ i \in 1..Len(calls)
  /\ calls[i].kind = "content"
  /\ IF calls[i].stale
     THEN UNCHANGED <<content, selectedFile, isContentLoading>>
     ELSE /\ content' = Coalesce(c)
          /\ selectedFile' = calls[i].arg
          /\ isContentLoading' = FALSE
  /\ calls' = RemoveAt(calls, i)
  /\ lastOp' = [op |-> "contentOk", live |-> ~calls[i].stale]
  /\ UNCHANGED <<activeTab, memo, notifVars, unitVars, unhandled, filter, taskVars, planVars>>

\* fetchFileContent after the await: the empty catch, then finally
ContentReject(i) ==
  /\ i \in 1..Len(calls)
  /\ calls[i].kind = "content"
  /\ IF calls[i].stale
     THEN UNCHANGED isContentLoading
     ELSE isContentLoading' = FALSE
  /\ NoPush
  /\ calls' = RemoveAt(calls, i)
  /\ lastOp' = [op |-> "contentFail", live |-> ~calls[i].stale]
  /\ UNCHANGED <<activeTab, memo, unitVars, unhandled, filter, selectedFile, content,
                 taskVars, planVars>>

\* triggerIndexing up to the await
TriggerIndexing ==
  /\ activeTab = "files"
  /\ CanCall
  /\ calls' = Append(calls, Call("index", "files", FALSE, TRUE, <<>>, EmptyDraft))
  /\ lastOp' = [op |-> "triggerIndexing", live |-> TRUE]
  /\ UNCHANGED <<activeTab, memo, notifVars, unitVars, unhandled, filesVars, taskVars, planVars>>

\* a triggerIndexing that reloads the list once the POST is accepted
IndexResolveRefreshes(i) ==
  /\ i \in 1..Len(calls)
  /\ calls[i].kind = "index"
  /\ Push(Msg("success"))
  /\ calls' = Append(RemoveAt(calls, i), ReqCall("files", calls[i].stale))
  /\ IF calls[i].stale THEN UNCHANGED <<loading, error>>
     ELSE loading' = TRUE /\ error' = Null
  /\ lastOp' = [op |-> "indexOk", live |-> ~calls[i].stale]
  /\ UNCHANGED <<activeTab, memo, data, cache, unhandled, filesVars, taskVars, planVars>>

\* triggerIndexing after the await: the try block
IndexResolve(i) ==
  /\ i \in 1..Len(calls)
  /\ calls[i].kind = "index"
  /\ Push(Msg("success"))
  /\ calls' = RemoveAt(calls, i)
  /\ lastOp' = [op |-> "indexOk", live |-> ~calls[i].stale]
  /\ UNCHANGED <<activeTab, memo, unitVars, unhandled, filesVars, taskVars, planVars>>

\* triggerIndexing: the empty catch
IndexReject(i) ==
  /\ i \in 1..Len(calls)
  /\ calls[i].kind = "index"
  /\ NoPush
  /\ calls' = RemoveAt(calls, i)
  /\ lastOp' = [op |-> "indexFail", live |-> ~calls[i].stale]
  /\ UNCHANGED <<activeTab, memo, unitVars, unhandled, filesVars, taskVars, planVars>>

\* -------------------------------------------------------- ProjectSummaryTab
\* the refresh button: onClick={() => request()}
RefreshSummary ==
  /\ activeTab = "summary"
  /\ CanCall
  /\ StartRequest(calls)
  /\ lastOp' = [op |-> "refresh", live |-> TRUE]
  /\ UNCHANGED <<activeTab, memo, notifVars, data, cache, unhandled, filesVars, taskVars,
                 planVars>>

\* ----------------------------------------------------------- CurrentTaskTab
\* loadTask / loadPlan called from the continuation of call c
Reload(c, rest) ==
  IF c.stale
  THEN calls' = Append(rest, ReqCall(c.tab, TRUE)) /\ UNCHANGED <<loading, error>>
  ELSE StartRequest(rest)

\* the textarea: setInput(e.target.value)
SetInput(s) ==
  /\ activeTab = "task"
  /\ s # input
  /\ input' = s
  /\ lastOp' = [op |-> "setInput", live |-> TRUE]
  /\ UNCHANGED <<activeTab, memo, notifVars, unitVars, calls, unhandled, filesVars,
                 submitting, planVars>>

\* a blank test without the trim
BlankDescriptionNoTrim(s) == s = <<>>

\* if (!input.trim())
BlankDescription(s) == Trim(s) = <<>>

\* a submitTask that posts the description as typed
SubmitTaskUntrimmed(op) ==
  /\ IF BlankDescription(input)
     THEN /\ Push(Msg("error"))
          /\ UNCHANGED <<calls, submitting>>
     ELSE /\ CanCall
          /\ submitting' = TRUE
          /\ calls' = Append(calls, Call("submit", "task", FALSE, TRUE,
                                         input, EmptyDraft))
          /\ NoPush
  /\ lastOp' = [op |-> op, live |-> TRUE]
  /\ UNCHANGED <<activeTab, memo, unitVars, unhandled, filesVars, input, planVars>>

\* submitTask up to the await
SubmitTask(op) ==
  /\ IF BlankDescription(input)
     THEN /\ Push(Msg("error"))
          /\ UNCHANGED <<calls, submitting>>
     ELSE /\ CanCall
          /\ submitting' = TRUE
          /\ calls' = Append(calls, Call("submit", "task", FALSE, TRUE,
                                         Trim(input), EmptyDraft))
          /\ NoPush
  /\ lastOp' = [op |-> op, live |-> TRUE]
  /\ UNCHANGED <<activeTab, memo, unitVars, unhandled, filesVars, input, planVars>>

\* the submit button, disabled={submitting}
SubmitClick ==
  /\ activeTab = "task"
  /\ ~submitting
  /\ SubmitTask("submitTask")

\* the window keydown handler: Ctrl+Enter in the textarea calls submitTask()
SubmitCtrlEnter ==
  /\ activeTab = "task"
  /\ SubmitTask("submitTask")

\* submitTask after the await: try, then finally
SubmitResolve(i) ==
  /\ i \in 1..Len(calls)
  /\ calls[i].kind = "submit"
  /\ Push(Msg("success"))
  /\ IF calls[i].stale
     THEN UNCHANGED <<input, submitting>>
     ELSE input' = <<>> /\ submitting' = FALSE
  /\ Reload(calls[i], RemoveAt(calls, i))
  /\ lastOp' = [op |-> "submitOk", live |-> ~calls[i].stale]
  /\ UNCHANGED <<activeTab, memo, data, cache, unhandled, filesVars, planVars>>

\* submitTask after the await: the empty catch, then finally
SubmitReject(i) ==
  /\ i \in 1..Len(calls)
  /\ calls[i].kind = "submit"
  /\ NoPush
  /\ IF calls[i].stale THEN UNCHANGED submitting ELSE submitting' = FALSE
  /\ calls' = RemoveAt(calls, i)
  /\ lastOp' = [op |-> "submitFail", live |-> ~calls[i].stale]
  /\ UNCHANGED <<activeTab, memo, unitVars, unhandled, filesVars, input, planVars>>

\* cancelTask up to the await
CancelTask ==
  /\ activeTab = "task"
  /\ CanCall
  /\ calls' = Append(calls, Call("cancel", "task", FALSE, TRUE, <<>>, EmptyDraft))
  /\ lastOp' = [op |-> "cancelTask", live |-> TRUE]
  /\ UNCHANGED <<activeTab, memo, notifVars, unitVars, unhandled, filesVars, taskVars, planVars>>

\* a cancelTask that clears the displayed task itself
CancelResolveGuessesState(i) ==
  /\ i \in 1..Len(calls)
  /\ calls[i].kind = "cancel"
  /\ Push(Msg("success"))
  /\ Reload(calls[i], RemoveAt(calls, i))
  /\ data' = IF calls[i].stale THEN data ELSE Null
  /\ lastOp' = [op |-> "cancelOk", live |-> ~calls[i].stale]
  /\ UNCHANGED <<activeTab, memo, cache, unhandled, filesVars, taskVars, planVars>>

\* cancelTask after the await: the try block
CancelResolve(i) ==
  /\ i \in 1..Len(calls)
  /\ calls[i].kind = "cancel"
  /\ Push(Msg("success"))
  /\ Reload(calls[i], RemoveAt(calls, i))
  /\ lastOp' = [op |-> "cancelOk", live |-> ~calls[i].stale]
  /\ UNCHANGED <<activeTab, memo, data, cache, unhandled, filesVars, taskVars, planVars>>

\* cancelTask: the empty catch
CancelReject(i) ==
  /\ i \in 1..Len(calls)
  /\ calls[i].kind = "cancel"
  /\ NoPush
  /\ calls' = RemoveAt(calls, i)
  /\ lastOp' = [op |-> "cancelFail", live |-> ~calls[i].stale]
  /\ UNCHANGED <<activeTab, memo, unitVars, unhandled, filesVars, taskVars, planVars>>

\* the refresh button: onClick={loadTask}
RefreshTask ==
  /\ activeTab = "task"
  /\ CanCall
  /\ StartRequest(calls)
  /\ lastOp' = [op |-> "refresh", live |-> TRUE]
  /\ UNCHANGED <<activeTab, memo, notifVars, data, cache, unhandled, filesVars, taskVars,
                 planVars>>

\* ------------------------------------------------------- DevelopmentPlanTab
\* filteredItems; first a filter without the "all" shortcut
FilterPlanNoAll(body, sf) ==
  IF ~body.present THEN <<>>
  ELSE SelectSeq(body.items, LAMBDA item : item.status = sf)

\* if (!data?.plan) return []; if (statusFilter === "all") return data.plan;
\* return data.plan.filter((item) => item.status === statusFilter)
FilterPlan(body, sf) ==
  IF ~body.present THEN <<>>
  ELSE IF sf = "all" THEN body.items
  ELSE SelectSeq(body.items, LAMBDA item : item.status = sf)

FilteredItems(d, sf) == FilterPlan(PlanBody(d), sf)

SetStatusFilter(sf) ==
  /\ activeTab = "plan"
  /\ sf # statusFilter
  /\ statusFilter' = sf
  /\ lastOp' = [op |-> "setStatusFilter", live |-> TRUE]
  /\ UNCHANGED <<activeTab, memo, notifVars, unitVars, calls, unhandled, filesVars,
                 taskVars, draft, isSaving>>

\* the form fields: setDraft((d) => ({ ...d, field: e.target.value }))
SetDraft(d) ==
  /\ activeTab = "plan"
  /\ d # draft
  /\ draft' = d
  /\ lastOp' = [op |-> "setDraft", live |-> TRUE]
  /\ UNCHANGED <<activeTab, memo, notifVars, unitVars, calls, unhandled, filesVars,
                 taskVars, statusFilter, isSaving>>

SetDraftTitle(t) == SetDraft([draft EXCEPT !.title = t])

SetDraftPriority(pr) == SetDraft([draft EXCEPT !.priority = pr])

SetDraftStatus(st) == SetDraft([draft EXCEPT !.status = st])

\* the edit button of a rendered item
EditItem(k) ==
  /\ activeTab = "plan"
  /\ k \in 1..Len(FilteredItems(data, statusFilter))
  /\ LET item == FilteredItems(data, statusFilter)[k]
     IN draft' = [id |-> item.id, title |-> item.title,
                  priority |-> item.priority, status |-> item.status]
  /\ Push(Msg("success"))
  /\ lastOp' = [op |-> "editItem", live |-> TRUE]
  /\ UNCHANGED <<activeTab, memo, unitVars, calls, unhandled, filesVars, taskVars,
                 statusFilter, isSaving>>

\* a blank test without the trim
BlankTitleNoTrim(s) == s = <<>>

\* if (!draft.title.trim())
BlankTitle(s) == Trim(s) = <<>>

\* the save button, disabled={isSaving}: savePlanItem up to the await
SavePlanItem ==
  /\ activeTab = "plan"
  /\ ~isSaving
  /\ IF BlankTitle(draft.title)
     THEN /\ Push(Msg("error"))
          /\ UNCHANGED <<calls, isSaving>>
     ELSE /\ CanCall
          /\ isSaving' = TRUE
          /\ calls' = Append(calls, Call("save", "plan", FALSE, TRUE, <<>>, draft))
          /\ NoPush
  /\ lastOp' = [op |-> "savePlanItem", live |-> TRUE]
  /\ UNCHANGED <<activeTab, memo, unitVars, unhandled, filesVars, taskVars, statusFilter,
                 draft>>

\* a success path that clears the form fields but keeps the draft's id
SaveResolveKeepsId(i) ==
  /\ i \in 1..Len(calls)
  /\ calls[i].kind = "save"
  /\ Push(Msg("success"))
  /\ IF calls[i].stale
     THEN UNCHANGED <<draft, isSaving>>
     ELSE /\ draft' = [EmptyDraft EXCEPT !.id = draft.id]
          /\ isSaving' = FALSE
  /\ Reload(calls[i], RemoveAt(calls, i))
  /\ lastOp' = [op |-> "saveOk", live |-> ~calls[i].stale]
  /\ UNCHANGED <<activeTab, memo, data, cache, unhandled, filesVars, taskVars,
                 statusFilter>>

\* a success path that leaves the draft in the form
SaveResolveKeepsDraft(i) ==
  /\ i \in 1..Len(calls)
  /\ calls[i].kind = "save"
  /\ Push(Msg("success"))
  /\ IF calls[i].stale
     THEN UNCHANGED <<draft, isSaving>>
     ELSE UNCHANGED draft /\ isSaving' = FALSE
  /\ Reload(calls[i], RemoveAt(calls, i))
  /\ lastOp' = [op |-> "saveOk", live |-> ~calls[i].stale]
  /\ UNCHANGED <<activeTab, memo, data, cache, unhandled, filesVars, taskVars, statusFilter>>

\* savePlanItem after the await: try, then finally
SaveResolve(i) ==
  /\ i \in 1..Len(calls)
  /\ calls[i].kind = "save"
  /\ Push(Msg("success"))
  /\ IF calls[i].stale
     THEN UNCHANGED <<draft, isSaving>>
     ELSE draft' = EmptyDraft /\ isSaving' = FALSE
  /\ Reload(calls[i], RemoveAt(calls, i))
  /\ lastOp' = [op |-> "saveOk", live |-> ~calls[i].stale]
  /\ UNCHANGED <<activeTab, memo, data, cache, unhandled, filesVars, taskVars, statusFilter>>

\* a failure path without the finally block
SaveRejectKeepsSaving(i) ==
  /\ i \in 1..Len(calls)
  /\ calls[i].kind = "save"
  /\ NoPush
  /\ calls' = RemoveAt(calls, i)
  /\ lastOp' = [op |-> "saveFail", live |-> ~calls[i].stale]
  /\ UNCHANGED <<activeTab, memo, unitVars, unhandled, filesVars, taskVars, planVars>>

\* a failure path that empties the form
SaveRejectResetsDraft(i) ==
  /\ i \in 1..Len(calls)
  /\ calls[i].kind = "save"
  /\ NoPush
  /\ IF calls[i].stale THEN UNCHANGED <<draft, isSaving>>
     ELSE draft' = EmptyDraft /\ isSaving' = FALSE
  /\ calls' = RemoveAt(calls, i)
  /\ lastOp' = [op |-> "saveFail", live |-> ~calls[i].stale]
  /\ UNCHANGED <<activeTab, memo, unitVars, unhandled, filesVars, taskVars, statusFilter>>

\* savePlanItem after the await: the empty catch, then finally
SaveReject(i) ==
  /\ i \in 1..Len(calls)
  /\ calls[i].kind = "save"
  /\ NoPush
  /\ IF calls[i].stale THEN UNCHANGED isSaving ELSE isSaving' = FALSE
  /\ calls' = RemoveAt(calls, i)
  /\ lastOp' = [op |-> "saveFail", live |-> ~calls[i].stale]
  /\ UNCHANGED <<activeTab, memo, unitVars, unhandled, filesVars, taskVars, statusFilter,
                 draft>>

\* --------------------------------------------------- the list filters alone
\* useMemo recomputes filteredFiles when the search text changes
FilteredFilesMemo(f) ==
  /\ memo.hook = "filteredFiles"
  /\ memo' = [memo EXCEPT !.arg = f, !.out = FilterFiles(memo.body, f), !.done = TRUE]
  /\ lastOp' = [op |-> "filteredFiles", live |-> TRUE]
  /\ UNCHANGED <<activeTab, notifVars, unitVars, calls, unhandled, filesVars,
                 taskVars, planVars>>

\* useMemo recomputes filteredItems when the status filter changes
FilteredItemsMemo(sf) ==
  /\ memo.hook = "filteredItems"
  /\ memo' = [memo EXCEPT !.arg = sf, !.out = FilterPlan(memo.body, sf), !.done = TRUE]
  /\ lastOp' = [op |-> "filteredItems", live |-> TRUE]
  /\ UNCHANGED <<activeTab, notifVars, unitVars, calls, unhandled, filesVars,
                 taskVars, planVars>>

\* ------------------------------------------------------------ specification
\* tab t has just mounted and its auto-load effect has called request();
\* nothing else is in flight and no notification is live
MountedTab(t) ==
  /\ activeTab = t
  /\ messages = <<>>
  /\ timers = <<>>
  /\ data = Null
  /\ loading = TRUE
  /\ error = Null
  /\ cache = EmptyCache
  /\ calls = <<ReqCall(t, FALSE)>>
  /\ unhandled = FALSE
  /\ lastOp = [op |-> "mount", live |-> TRUE]
  /\ filter = <<>>
  /\ selectedFile = NoFile
  /\ content = 0
  /\ isContentLoading = FALSE
  /\ input = <<>>
  /\ submitting = FALSE
  /\ statusFilter = "all"
  /\ draft = EmptyDraft
  /\ isSaving = FALSE

Mounted(t) == MountedTab(t) /\ memo = NoMemo

\* App mounts with activeTab "files"
Init == Mounted("files")

UnitNext ==
  \/ \E i \in 1..MaxCalls, p \in ResponseBodies : RequestResolve(i, p)
  \/ \E i \in 1..MaxCalls, f \in Failures : RequestReject(i, f)
  \/ TimerFire

FilesNext ==
  \/ \E f \in Texts : SetFilter(f)
  \/ \E k \in 1..NumPayloads : SelectFile(k)
  \/ \E i \in 1..MaxCalls, c \in Contents : ContentResolve(i, c)
  \/ \E i \in 1..MaxCalls : ContentReject(i)
  \/ TriggerIndexing
  \/ \E i \in 1..MaxCalls : IndexResolve(i)
  \/ \E i \in 1..MaxCalls : IndexReject(i)

SummaryNext == RefreshSummary

TaskNext ==
  \/ \E s \in Descriptions : SetInput(s)
  \/ SubmitClick
  \/ SubmitCtrlEnter
  \/ \E i \in 1..MaxCalls : SubmitResolve(i)
  \/ \E i \in 1..MaxCalls : SubmitReject(i)
  \/ CancelTask
  \/ \E i \in 1..MaxCalls : CancelResolve(i)
  \/ \E i \in 1..MaxCalls : CancelReject(i)
  \/ RefreshTask

PlanNext ==
  \/ \E sf \in StatusFilters : SetStatusFilter(sf)
  \/ \E t \in Texts : SetDraftTitle(t)
  \/ \E pr \in PrioritiesTried : SetDraftPriority(pr)
  \/ \E st \in StatusesTried : SetDraftStatus(st)
  \/ \E k \in 1..NumPayloads : EditItem(k)
  \/ SavePlanItem
  \/ \E i \in 1..MaxCalls : SaveResolve(i)
  \/ \E i \in 1..MaxCalls : SaveReject(i)

\* the whole application
Next ==
  \/ \E t \in TABS : SwitchTab(t)
  \/ UnitNext
  \/ FilesNext
  \/ SummaryNext
  \/ TaskNext
  \/ PlanNext

Spec == Init /\ [][Next]_vars

\* one tab, mounted and never left: the tabs share no state but the
\* notification queue, which no tab reads
FilesSpec == Mounted("files") /\ [][UnitNext \/ FilesNext]_vars

SummarySpec == Mounted("summary") /\ [][UnitNext \/ SummaryNext]_vars

TaskSpec == Mounted("task") /\ [][UnitNext \/ TaskNext]_vars

PlanSpec == Mounted("plan") /\ [][UnitNext \/ PlanNext]_vars

\* useCachedRequest alone, every function it returns callable: the summary
\* tab adds no state to its unit, and hydrateFromCache is called at any time
UnitSpec == Mounted("summary") /\ [][UnitNext \/ SummaryNext \/ Hydrate]_vars

\* any one of the four tabs, mounted and never left
AnyTabInit == \E t \in TABS : Mounted(t)

AnyTabSpec ==
  AnyTabInit /\ [][UnitNext \/ FilesNext \/ SummaryNext \/ TaskNext \/ PlanNext]_vars

\* tab activation alone: the operator only switches tabs, so every request()
\* is one the auto-load effect of a tab issued
ActivationNext ==
  \/ \E t \in TABS : SwitchTab(t)
  \/ UnitNext

ActivationSpec == Init /\ [][ActivationNext]_vars

\* filteredFiles and filteredItems alone: any response body, then any
\* sequence of filter changes
MemoInit ==
  \/ MountedTab("files") /\ memo \in {Memo("filteredFiles", b, <<>>) : b \in Listings}
  \/ MountedTab("plan") /\ memo \in {Memo("filteredItems", b, "all") : b \in Plans}

MemoNext ==
  \/ \E f \in QueriesTried : FilteredFilesMemo(f)
  \/ \E sf \in StatusFilters : FilteredItemsMemo(sf)

MemoSpec == MemoInit /\ [][MemoNext]_vars

\* NotificationProvider alone, every operation of it callable; timers fire,
\* since the event loop runs every setTimeout callback
QueueNext ==
  \/ \E type \in {"error", "success"} : PushAny(type)
  \/ \E id \in Ids : RemoveMessage(id)
  \/ TimerFire

QueueSpec == Init /\ [][QueueNext]_vars /\ WF_vars(TimerFire)

\* ------------------------------------------------------------------- claims
LiveIds == {messages[k].id : k \in 1..Len(messages)}

\* the messages of msgs whose id is not id, in order
OthersOf(msgs, id) == SelectSeq(msgs, LAMBDA m : m.id # id)

\* a step that removes id: removeMessage(id) directly or from its timer
Removes(id) == RemoveMessage(id) \/ (TimerFire /\ Head(timers) = id)

FailureOps ==
  {"requestFail", "contentFail", "indexFail", "submitFail", "cancelFail", "saveFail"}

\* the step appends exactly one message, of the given type
PushesOne(type) ==
  /\ Len(messages') = Len(messages) + 1
  /\ SubSeq(messages', 1, Len(messages)) = messages
  /\ messages'[Len(messages')].type = type

\* C1: a request() that fails in a mounted unit leaves data and the cache
\* as they were; it sets error, clears loading and pushes one error message,
\* and touches nothing else of the component
C1_FailureKeepsData ==
  [][(lastOp'.op = "requestFail" /\ lastOp'.live) =>
       /\ data' = data
       /\ cache' = cache
       /\ error' # Null
       /\ loading' = FALSE
       /\ PushesOne("error")
       /\ UNCHANGED <<activeTab, memo, filesVars, taskVars, planVars>>]_vars

\* C1 witness: a request failed while a response was stored
C1_Witness ==
  /\ lastOp.op = "requestFail"
  /\ lastOp.live
  /\ Truthy(data)
  /\ cache.data = data
  /\ error # Null

\* C2: every failed network call pushes exactly one notification
C2_EveryFailureNotifies ==
  [][lastOp'.op \in FailureOps => Len(messages') = Len(messages) + 1]_vars

\* C3: no failed network call ends as an unhandled promise rejection
C3_NoUnhandledRejection == unhandled = FALSE

\* C4: submitTask with a description that trims to empty starts no network
\* call, pushes exactly one error message and changes nothing else
C4_BlankSubmit ==
  [][(lastOp'.op = "submitTask" /\ Trim(input) = <<>>) =>
       /\ calls' = calls
       /\ PushesOne("error")
       /\ UNCHANGED <<input, submitting, unitVars, activeTab, unhandled>>]_vars

\* C4 witness: submitTask has run on a description of white space only
C4_Witness ==
  /\ lastOp.op = "submitTask"
  /\ input # <<>>
  /\ Trim(input) = <<>>
  /\ messages # <<>>

\* C5: savePlanItem with a title that trims to empty starts no network call,
\* pushes exactly one error message and leaves the draft, the saving flag
\* and the plan data unchanged
C5_BlankSave ==
  [][(lastOp'.op = "savePlanItem" /\ Trim(draft.title) = <<>>) =>
       /\ calls' = calls
       /\ PushesOne("error")
       /\ UNCHANGED <<draft, isSaving, statusFilter, unitVars, activeTab, unhandled>>]_vars

\* C5 witness: savePlanItem has run on a draft being edited whose title is
\* white space only
C5_Witness ==
  /\ lastOp.op = "savePlanItem"
  /\ draft.id # Null
  /\ draft.title # <<>>
  /\ Trim(draft.title) = <<>>
  /\ messages # <<>>

\* C6: savePlanItem with a non-blank title starts exactly one POST /plan
\* whose body is the whole draft, id included; when that POST succeeds the
\* handler pushes one success message, resets the draft to
\* {title: "", priority: "medium", status: "planned"} and reloads the plan
C6_SavePostsAndResets ==
  [][/\ (lastOp'.op = "savePlanItem" /\ Trim(draft.title) # <<>>) =>
          /\ Len(calls') = Len(calls) + 1
          /\ SubSeq(calls', 1, Len(calls)) = calls
          /\ calls'[Len(calls')].kind = "save"
          /\ calls'[Len(calls')].body = draft
          /\ messages' = messages
     /\ (lastOp'.op = "saveOk" /\ lastOp'.live) =>
          /\ PushesOne("success")
          /\ draft' = [id |-> Null, title |-> <<>>, priority |-> "medium",
                       status |-> "planned"]
          /\ Len(calls') = Len(calls)
          /\ calls'[Len(calls')] = ReqCall("plan", FALSE)
          /\ \A k \in 1..Len(calls') : calls'[k].kind # "save"
          /\ loading']_vars

\* C6 witness: a POST /plan has succeeded in the mounted tab: the draft is
\* back to the defaults, a success message is live and the reload is in flight
C6_Witness ==
  /\ lastOp.op = "saveOk"
  /\ lastOp.live
  /\ draft = EmptyDraft
  /\ \E k \in 1..Len(calls) : calls[k].kind = "request"
  /\ \E k \in 1..Len(messages) : messages[k].type = "success"

\* C7: no two notifications of the live set have the same id
C7_UniqueLiveIds ==
  \A j, k \in 1..Len(messages) : j # k => messages[j].id # messages[k].id

\* C8: removing id leaves no message with that id, whether or not its timer
\* has fired; removing an id that is not live changes nothing; the messages
\* with other ids stay, in order
C8_RemovalIsExact ==
  [][\A id \in Ids :
       Removes(id) =>
         /\ \A k \in 1..Len(messages') : messages'[k].id # id
         /\ OthersOf(messages', id) = OthersOf(messages, id)
         /\ (id \notin LiveIds => messages' = messages)]_vars

\* C8 witness: after a direct removal the removed id's timer is still
\* pending and a message with another id is still live
C8_Witness ==
  /\ lastOp.op = "removeMessage"
  /\ messages # <<>>
  /\ \E k \in 1..Len(timers) : timers[k] \notin LiveIds

\* C9: every live notification is eventually retired, and once every timer
\* has fired the live set is empty
C9_EventuallyRetired ==
  /\ \A id \in Ids : (id \in LiveIds) ~> (id \notin LiveIds)
  /\ [](timers = <<>> => messages = <<>>)

\* C10: hydrateFromCache starts no network call and leaves error, loading
\* and the cache alone; while no request() has succeeded it leaves data
\* alone too
C10_HydrateIsLocal ==
  [][lastOp'.op = "hydrate" =>
       /\ calls' = calls
       /\ error' = error
       /\ loading' = loading
       /\ cache' = cache
       /\ (cache = EmptyCache => data' = data)]_vars

\* C10 witness: hydrateFromCache has run with nothing cached and an error
\* recorded
C10_Witness ==
  /\ lastOp.op = "hydrate"
  /\ cache = EmptyCache
  /\ error # Null

\* C9 witness: the last timer has fired and retired the last notification
C9_Witness ==
  /\ lastOp.op = "timer"
  /\ timers = <<>>
  /\ messages = <<>>

\* the request() calls of the mounted unit that are in flight
InFlight(kind) == {k \in 1..Len(calls) : calls[k].kind = kind /\ ~calls[k].stale}

\* C11: whenever loading is true, at least one request() of the mounted unit
\* has started and has neither resolved nor rejected
C11_LoadingImpliesInFlight == loading => InFlight("request") # {}

\* C11 witness: loading is true while two request() calls overlap, after an
\* earlier response was stored
C11_Witness ==
  /\ loading
  /\ Truthy(data)
  /\ Cardinality(InFlight("request")) >= 2

\* C12: immediately after a request() of the mounted unit resolves
\* successfully, the unit's error is absent
C12_SuccessClearsError ==
  [][(lastOp'.op = "requestOk" /\ lastOp'.live) => error' = Null]_vars

\* C13: each response that arrives for the mounted unit, whichever call it
\* answers and whatever other calls are still in flight, becomes the unit's
\* data and cached value: the response that arrives last wins
C13_LastWriterWins ==
  [][\A i \in 1..MaxCalls, p \in ResponseBodies :
       (RequestResolve(i, p) /\ ~calls[i].stale) =>
         /\ data' = p
         /\ cache'.data = p]_vars

\* C13 witness: a response has arrived over a stored one and every
\* request() has resolved
C13_Witness ==
  /\ lastOp.op = "requestOk"
  /\ lastOp.live
  /\ Truthy(data)
  /\ cache.data = data
  /\ calls = <<>>

\* the calls of one kind among cs
CountKind(cs, kind) == Cardinality({k \in 1..Len(cs) : cs[k].kind = kind})

\* C14: submitTask with a non-blank description starts exactly one POST /task
\* carrying the trimmed description and does nothing else; the success
\* message, the clearing of the input and the refresh GET /task happen in the
\* step in which that POST is accepted and in no other; when the POST fails
\* the input is kept, nothing is pushed and no refresh is issued
C14_SubmitOrdering ==
  [][/\ (lastOp'.op = "submitTask" /\ Trim(input) # <<>>) =>
          /\ calls' = Append(calls, Call("submit", "task", FALSE, TRUE,
                                         Trim(input), EmptyDraft))
          /\ messages' = messages
          /\ input' = input
     /\ (lastOp'.op = "submitOk" /\ lastOp'.live) =>
          /\ PushesOne("success")
          /\ input' = <<>>
          /\ CountKind(calls', "submit") = CountKind(calls, "submit") - 1
          /\ CountKind(calls', "request") = CountKind(calls, "request") + 1
          /\ calls'[Len(calls')] = ReqCall("task", FALSE)
     /\ lastOp'.op = "submitFail" =>
          /\ messages' = messages
          /\ input' = input
          /\ CountKind(calls', "submit") = CountKind(calls, "submit") - 1
          /\ CountKind(calls', "request") = CountKind(calls, "request")
     /\ input' # input => lastOp'.op \in {"setInput", "submitOk"}]_vars

\* C14 witness: submitTask has posted the trimmed form of a description
\* typed with white space around it
C14_Witness ==
  /\ lastOp.op = "submitTask"
  /\ input = PaddedText
  /\ submitting
  /\ \E k \in 1..Len(calls) : calls[k].kind = "submit" /\ calls[k].arg = <<"a">>

\* C15: the displayed task state changes only in the step in which a
\* GET /task resolves successfully, and it is then the response body as a
\* whole; submitTask, cancelTask, their responses and failed polls leave it
\* as it was
C15_TaskStateWholesale ==
  [][/\ data' # data => (lastOp'.op = "requestOk" /\ lastOp'.live)
     /\ lastOp'.op \in {"submitTask", "submitOk", "submitFail", "cancelTask",
                        "cancelOk", "cancelFail", "requestFail"} => data' = data
     /\ \A i \in 1..MaxCalls, p \in ResponseBodies :
          (RequestResolve(i, p) /\ ~calls[i].stale) => data' = p]_vars

\* C15 witness: a cancel POST was accepted while a task state was displayed
C15_Witness ==
  /\ lastOp.op = "cancelOk"
  /\ lastOp.live
  /\ Truthy(data)
  /\ \E k \in 1..Len(calls) : calls[k].kind = "request"

\* C16: a failed GET /task is caught inside loadTask: it leaves no unhandled
\* rejection, keeps the task data, and is reported by the unit (error set,
\* loading cleared, one error message)
C16_FailedRefreshIsContained ==
  [][lastOp'.op = "requestFail" =>
       /\ unhandled' = FALSE
       /\ data' = data
       /\ error' # Null
       /\ loading' = FALSE
       /\ PushesOne("error")]_vars

\* C16 witness: a refresh of a displayed task has failed and was caught
C16_Witness ==
  /\ lastOp.op = "requestFail"
  /\ activeTab = "task"
  /\ Truthy(data)
  /\ error # Null
  /\ unhandled = FALSE

\* C17: while a file-content fetch is in flight the content pane holds no
\* content of a file displayed before
C17_PreviousContentCleared == InFlight("content") # {} => ContentPane = 0

\* C18: whenever at least one file-content fetch is in flight,
\* isContentLoading is true
C18_LoadingWhileFetching == InFlight("content") # {} => isContentLoading

\* C19: after a file-content fetch fails the stored content is empty
C19_FailureEmptiesContent ==
  [][(lastOp'.op = "contentFail" /\ lastOp'.live) => content' = 0]_vars

\* out holds entries of inp that satisfy Keep, each once, in inp's order
IsSelection(out, inp, Keep(_)) ==
  LET kept == {k \in 1..Len(inp) : Keep(inp[k])}
  IN /\ Len(out) = Cardinality(kept)
     /\ \E pos \in [1..Len(out) -> kept] :
          /\ \A j, k \in 1..Len(out) : j < k => pos[j] < pos[k]
          /\ \A j \in 1..Len(out) : out[j] = inp[pos[j]]

\* C21: the filtered plan depends only on the fetched collection and the
\* filter: "all" returns the collection unchanged, any other filter returns
\* exactly the items with that status in their original order, and an
\* absent collection yields the empty sequence
C21_PlanFilter ==
  (memo.hook = "filteredItems" /\ memo.done) =>
    IF ~memo.body.present THEN memo.out = <<>>
    ELSE IF memo.arg = "all" THEN memo.out = memo.body.items
    ELSE IsSelection(memo.out, memo.body.items, LAMBDA item : item.status = memo.arg)

\* C21 witness: a filter has kept the first and third of three items and
\* dropped the second
C21_Witness ==
  /\ memo.hook = "filteredItems"
  /\ memo.done
  /\ memo.body.present
  /\ Len(memo.body.items) = 3
  /\ memo.arg = "planned"
  /\ Len(memo.out) = 2
  /\ memo.out[2].id = 3

\* name contains text when letter case is ignored
ContainsIgnoringCase(name, text) ==
  \E k \in 0..(Len(name) - Len(text)) :
    \A j \in 1..Len(text) : LowerChar(name[k + j]) = LowerChar(text[j])

\* C22: the filtered file list is exactly the cached entries whose name
\* contains the search text, letter case ignored, in their original order;
\* the empty text returns every entry; filtering leaves the cached list as
\* it was
C22_FileFilter ==
  [][(memo'.hook = "filteredFiles") =>
       /\ memo'.body = memo.body
       /\ IF ~memo.body.present THEN memo'.out = <<>>
          ELSE /\ IsSelection(memo'.out, memo.body.items,
                              LAMBDA n : ContainsIgnoringCase(n, memo'.arg))
               /\ (memo'.arg = <<>> => memo'.out = memo.body.items)]_vars

\* C22 witness: a search text in capitals has kept a lower-case name that
\* follows a dropped one
C22_Witness ==
  /\ memo.hook = "filteredFiles"
  /\ memo.done
  /\ memo.arg = <<"A", "B">>
  /\ memo.body.items = <<<<"A">>, <<"a", "b">>, <<"B">>>>
  /\ memo.out = <<<<"a", "b">>>>

\* C23: triggerIndexing starts exactly one POST /index and no GET /files;
\* neither the click nor the POST's success or failure changes the cached
\* file list, its loading flag, the selected file or the content
C23_IndexingFrame ==
  [][/\ lastOp'.op = "triggerIndexing" =>
          /\ calls' = Append(calls, Call("index", "files", FALSE, TRUE, <<>>, EmptyDraft))
          /\ UNCHANGED <<unitVars, filesVars, messages>>
     /\ lastOp'.op \in {"indexOk", "indexFail"} =>
          /\ UNCHANGED <<unitVars, filesVars>>
          /\ Len(calls') = Len(calls) - 1
          /\ CountKind(calls', "index") = CountKind(calls, "index") - 1
          /\ CountKind(calls', "request") = CountKind(calls, "request")]_vars

\* C23 witness: a POST /index was accepted while a file was selected and
\* its content displayed
C23_Witness ==
  /\ lastOp.op = "indexOk"
  /\ Truthy(data)
  /\ selectedFile # NoFile
  /\ content = 1
  /\ \E k \in 1..Len(messages) : messages[k].type = "success"

\* C24: when the POST of savePlanItem fails, the draft stays as it is, id
\* included, nothing is pushed, no reload of the plan is issued and the
\* fetched plan is unchanged
C24_SaveFailureFrame ==
  [][(lastOp'.op = "saveFail" /\ lastOp'.live) =>
       /\ draft' = draft
       /\ messages' = messages
       /\ data' = data
       /\ cache' = cache
       /\ Len(calls') = Len(calls) - 1
       /\ CountKind(calls', "request") = CountKind(calls, "request")]_vars

\* C24 witness: the POST of an edited item has failed with a plan displayed
C24_Witness ==
  /\ lastOp.op = "saveFail"
  /\ lastOp.live
  /\ draft.id # Null
  /\ Truthy(data)
  /\ isSaving = FALSE

\* C25: in every reachable state the unit's data equals the cached data, so
\* hydrateFromCache would leave data as it is
C25_DataEqualsCache ==
  /\ data = cache.data
  /\ Hydrated(data, cache) = data

\* C25 witness: hydrateFromCache has run on a stored response
C25_Witness ==
  /\ lastOp.op = "hydrate"
  /\ Truthy(data)
  /\ cache.timestamp = Stamp

\* the calls of one kind among cs that a mounted component is waiting for
LiveOf(cs, kind) == {k \in 1..Len(cs) : cs[k].kind = kind /\ ~cs[k].stale}

\* C26: the activation of a tab starts its unit with no data and nothing
\* cached and with exactly one request() in flight, and when that request
\* completes, successfully or not, the auto-load effect issues no other
C26_SingleAutoRequest ==
  [][/\ lastOp'.op = "mount" =>
          /\ data' = Null
          /\ cache' = EmptyCache
          /\ Cardinality(LiveOf(calls', "request")) = 1
     /\ (lastOp'.op \in {"requestOk", "requestFail"} /\ lastOp'.live) =>
          LiveOf(calls', "request") = {}]_vars

\* C27: content and selectedFile change only together, in the step in which
\* a content response arrives, and then to that response's content and to
\* the file name that response was requested for
C27_ContentMatchesSelection ==
  [][(content' # content \/ selectedFile' # selectedFile) =>
       /\ lastOp'.op = "contentOk"
       /\ lastOp'.live
       /\ \E i \in 1..Len(calls), c \in Contents :
            /\ calls[i].kind = "content"
            /\ calls' = RemoveAt(calls, i)
            /\ content' = Coalesce(c)
            /\ selectedFile' = calls[i].arg]_vars

\* C27 witness: the response for one file has arrived while the fetch of
\* another file is still in flight
C27_Witness ==
  /\ lastOp.op = "contentOk"
  /\ selectedFile = <<"A", "b">>
  /\ content = 1
  /\ \E k \in 1..Len(calls) : calls[k].kind = "content" /\ calls[k].arg = <<"A">>

\* C28: at most one create-task POST is in flight at any time
C28_NoDoubleSubmit == Cardinality(LiveOf(calls, "submit")) <= 1

\* C29: a busy flag is false whenever no call of its kind is in flight:
\* submitting, isSaving, isContentLoading, and the unit's loading
C29_BusyFlagsClear ==
  /\ LiveOf(calls, "submit") = {} => ~submitting
  /\ LiveOf(calls, "save") = {} => ~isSaving
  /\ LiveOf(calls, "content") = {} => ~isContentLoading
  /\ LiveOf(calls, "request") = {} => ~loading

\* C29 witness: the last of the calls in flight, a plan-save POST, has
\* failed and no flag is set
C29_Witness ==
  /\ lastOp.op = "saveFail"
  /\ calls = <<>>
  /\ ~isSaving
  /\ ~loading

\* C30: editItem puts the item's id into the draft; a save POST carries the
\* draft's id; only editItem and a successful save change the draft's id,
\* and after a successful save the draft has none
C30_EditedIdLifetime ==
  [][/\ lastOp'.op = "editItem" =>
          \E k \in 1..Len(FilteredItems(data, statusFilter)) :
            /\ draft'.id = FilteredItems(data, statusFilter)[k].id
            /\ draft'.id # Null
     /\ (lastOp'.op = "savePlanItem" /\ Len(calls') > Len(calls)) =>
          calls'[Len(calls')].body.id = draft.id
     /\ draft'.id # draft.id => lastOp'.op \in {"editItem", "saveOk"}
     /\ (lastOp'.op = "saveOk" /\ lastOp'.live) => draft'.id = Null]_vars

\* C30 witness: the POST of an edited item is in flight and carries its id
C30_Witness ==
  /\ lastOp.op = "savePlanItem"
  /\ draft.id = 2
  /\ \E k \in 1..Len(calls) : calls[k].kind = "save" /\ calls[k].body.id = 2

====
